---- MODULE Spec2Model ----
(***************************************************************************)
(* Mutation layer of the gf data-access engine: RETURNING negotiation of   *)
(* the pgsql and sqlite drivers, the Result they hand back, and the link   *)
(* a statement is executed on.  One mutation call is in flight at a time:  *)
(* Call picks the caller's inputs, the driver's DoInsert (or the model's   *)
(* update/delete) prepares the context and the SQL text, the driver's      *)
(* DoExec sends the statement and builds the Result, Return hands it back. *)
(***************************************************************************)
EXTENDS Integers, Sequences, FiniteSets, TLC

VARIABLES
    pc,            \* position of the call: "idle", "model", "exec", "done", "scanned"
    helper,        \* entry point of the call: "Exec" (Insert/Update/Delete) or "AndScan"
    drv,           \* driver the call runs on
    op,            \* "insert", "update", "delete"
    insertOption,  \* gdb.InsertOption of an insert
    returning,     \* Model.returning / DoInsertOption.Returning
    linkArg,       \* link handed to DoExec by the caller
    tableName,     \* table the mutation targets
    nRows,         \* rows in the insert list / rows matched by update or delete
    fail,          \* which collaborator fails during this call, if any
    ctx,           \* the call's context values
    sql,           \* SQL text handed to DoExec
    link,          \* link the statement was executed on
    sent,          \* statements sent to the database by this call
    result,        \* sql.Result returned to the caller
    err,           \* error returned by the mutation
    scanErr,       \* error returned by the *AndScan helper
    dest,          \* records scanned into the *AndScan helper's pointer
    heap,          \* context.Context values of concurrent calls, each naming its parent
    calls,         \* concurrent pgsql inserts: inputs, context, position, what DoExec read
    dst,           \* destination sequence handed to ScanList
    attrKind,      \* "ptr" (One *S1, Many []*S2) or "struct" (One S1, Many []S2)
    shape,         \* "sequence" or "wrong": what the ScanList pointer points to
    last,          \* the last ScanList call: attribute bound and its RecordSet
    listErr,       \* error returned by the last ScanList call
    pgVersion,     \* banner the PostgreSQL engine answers "SELECT version();" with
    tpc,           \* position of a Tables call: "idle", "linked", "versioned"
    tSchema,       \* usedSchema of the Tables call
    tQuery,        \* query the Tables call built
    tErr,          \* error returned by the last Tables call
    versionSent,   \* how many times "SELECT version();" was sent
    tCalls,        \* Tables calls made so far
    commitOut      \* DoCommitOutput.Records handed to the Result-building tail of DoExec

\* the variables of the single call
callVars == <<pc, helper, drv, op, insertOption, returning, linkArg, tableName, nRows,
              fail, ctx, sql, link, sent, result, err, scanErr, dest>>

\* the variables of the concurrent calls
concVars == <<heap, calls>>

\* the variables of ScanList
listVars == <<dst, attrKind, shape, last, listErr>>

\* the variables of Tables and of the engine's version
tablesVars == <<pgVersion, tpc, tSchema, tQuery, tErr, versionSent, tCalls>>

restVars == <<tablesVars, commitOut>>

otherVars == <<concVars, listVars, restVars>>

vars == <<callVars, otherVars>>

----------------------------------------------------------------------------
(* Bounds *)

MaxRows == 2

\* longest field list handed to buildReturningClause
MaxFields == 2

\* concurrent calls that share one parent context
MaxCalls == 2

\* most rows of a RecordSet handed to ScanList
MaxRelated == 2

\* calls of Tables in one run
MaxTablesCalls == 2

----------------------------------------------------------------------------
(* Strings *)

\* strings.Contains
Contains(s, sub) ==
    \E i \in 0..(Len(s) - Len(sub)) : SubSeq(s, i + 1, i + Len(sub)) = sub

\* strings.HasPrefix
HasPrefix(s, p) == Len(s) >= Len(p) /\ SubSeq(s, 1, Len(p)) = p

RECURSIVE TrimLeft(_)
TrimLeft(s) ==
    IF Len(s) > 0 /\ SubSeq(s, 1, 1) = " " THEN TrimLeft(SubSeq(s, 2, Len(s))) ELSE s

RECURSIVE TrimRight(_)
TrimRight(s) ==
    IF Len(s) > 0 /\ SubSeq(s, Len(s), Len(s)) = " "
    THEN TrimRight(SubSeq(s, 1, Len(s) - 1)) ELSE s

\* strings.TrimSpace
TrimSpace(s) == TrimRight(TrimLeft(s))

UpperChar(ch) ==
    CASE ch = "o" -> "O" [] ch = "l" -> "L" [] ch = "d" -> "D"
      [] ch = "n" -> "N" [] ch = "e" -> "E" [] ch = "w" -> "W"
      [] ch = "i" -> "I" [] ch = "a" -> "A" [] ch = "m" -> "M"
      [] OTHER -> ch

RECURSIVE ToUpper(_)
\* strings.ToUpper
ToUpper(s) ==
    IF Len(s) = 0 THEN ""
    ELSE UpperChar(SubSeq(s, 1, 1)) \o ToUpper(SubSeq(s, 2, Len(s)))

RECURSIVE Join(_, _)
\* gstr.Join
Join(parts, sep) ==
    IF Len(parts) = 0 THEN ""
    ELSE IF Len(parts) = 1 THEN parts[1]
    ELSE parts[1] \o sep \o Join(Tail(parts), sep)

----------------------------------------------------------------------------
(* Inputs of a call *)

Drivers == {"pgsql", "sqlite", "sqlite_query", "sqlite_plain", "sqlite_ctxkey", "mysql"}

Ops == {"insert", "update", "delete"}

InsertOptions == {"InsertOptionDefault", "InsertOptionReplace",
                  "InsertOptionSave", "InsertOptionIgnore"}

ReturningLists == {<<>>, <<"id", "name">>, <<"*">>}

LinkArgs == {"nil", "conn", "txArg"}

CtxTxs == {"nil", "txCtx"}

Failures == {"none", "master", "filter", "commit", "tableFields"}

\* gdb.TableField, as far as the drivers read it
TableField(n, k, t) == [kind |-> "TableField", Name |-> n, Key |-> k, Type |-> t]

NoHint == [kind |-> "none", Name |-> "", Key |-> "", Type |-> ""]

\* a context value under the primary-key key that is not a gdb.TableField
OtherHint == [kind |-> "other", Name |-> "", Key |-> "", Type |-> ""]

CallerHints == {NoHint, OtherHint, TableField("", "", "")}

\* table metadata as TableFields reports it (a map, iterated in no fixed order)
Schema ==
    [t_nopk      |-> {TableField("id", "", "int4"), TableField("name", "", "varchar")},
     t_int       |-> {TableField("id", "pri", "int4"), TableField("name", "", "varchar")},
     t_varchar   |-> {TableField("id", "", "int4"), TableField("name", "pri", "varchar")},
     t_interval  |-> {TableField("id", "pri", "interval"), TableField("name", "", "varchar")},
     t_composite |-> {TableField("id", "pri", "int8"), TableField("name", "pri", "varchar")}]

TableNames == DOMAIN Schema

AllColumns == {"id", "name"}

PrimaryKeys(t) == {f \in Schema[t] : f.Key = "pri"}

IntegerTypes == {"int2", "int4", "int8"}

----------------------------------------------------------------------------
(* Context values *)

NoValue == [kind |-> "none", fields |-> <<>>]

StringsValue(fields) == [kind |-> "strings", fields |-> fields]

EmptyCtx(tx, hint) ==
    [tx |-> tx, ReturningFields |-> NoValue, returning_fields |-> NoValue, pk |-> hint]

\* gdb.InjectReturning
InjectReturning(c, fields) ==
    IF Len(fields) = 0 THEN c
    ELSE [c EXCEPT !.ReturningFields = StringsValue(fields)]

\* gdb.GetReturningFromCtx
GetReturningFromCtx(c) ==
    IF c.ReturningFields.kind # "none" /\ c.ReturningFields.kind = "strings"
    THEN c.ReturningFields.fields
    ELSE <<>>

\* gdb.TXFromCtx
TXFromCtx(c) == c.tx

\* a context.Context: the key and value it adds to its parent
ContextNode(p, k, fs, f) == [parent |-> p, key |-> k, strings |-> fs, field |-> f]

\* context.Background
Background == ContextNode(0, "", <<>>, NoHint)

\* context.WithValue: a new context behind the existing ones
WithValue(h, id, k, fs, f) ==
    [heap |-> Append(h, ContextNode(id, k, fs, f)), ctx |-> Len(h) + 1]

RECURSIVE Lookup(_, _, _)
\* Context.Value: the nearest context on the way to the root that holds the key
Lookup(h, id, k) ==
    IF id = 0 THEN Background
    ELSE IF h[id].key = k THEN h[id]
    ELSE Lookup(h, h[id].parent, k)

\* the values DoExec can read from a context
ContextValues(h, id) ==
    [tx |-> "nil",
     ReturningFields |-> IF Lookup(h, id, "ReturningFields").key = ""
                         THEN NoValue
                         ELSE StringsValue(Lookup(h, id, "ReturningFields").strings),
     returning_fields |-> NoValue,
     pk |-> Lookup(h, id, "pk").field]

\* an injection that stores the list in the given context itself
InjectReturningInPlace(h, id, fields) ==
    IF Len(fields) = 0 THEN [heap |-> h, ctx |-> id]
    ELSE [heap |-> [h EXCEPT ![id] = ContextNode(h[id].parent, "ReturningFields",
                                                 fields, NoHint)],
          ctx |-> id]

\* gdb.InjectReturning on contexts that name their parent
InjectReturningInto(h, id, fields) ==
    IF Len(fields) = 0 THEN [heap |-> h, ctx |-> id]
    ELSE WithValue(h, id, "ReturningFields", fields, NoHint)

\* a concurrent call that has not started
ConcurrentCall(r, t) ==
    [pc |-> "insert", returning |-> r, table |-> t, ctx |-> 1,
     seen |-> [fields |-> <<>>, hint |-> NoHint]]

ConcCalls == 1..MaxCalls

\* no concurrent calls are modelled
NoConcurrentCalls ==
    /\ heap = <<Background>>
    /\ calls = [c \in ConcCalls |-> ConcurrentCall(<<>>, "t_nopk")]

\* banners of the engines a connection can reach
Banners == {"PostgreSQL 9.6.24 on x86_64", "PostgreSQL 10.4", "PostgreSQL 17.2",
            "PostgreSQL 18.0", "PostgreSQL 18beta1"}

\* no Tables call is modelled
NoTablesCall ==
    /\ tpc = "idle"
    /\ tSchema = ""
    /\ tQuery = ""
    /\ tErr = "none"
    /\ versionSent = 0
    /\ tCalls = 0

\* a ScanList call: the attribute it binds and the RecordSet it is called on
Binding(attr, rs) == [attr |-> attr, records |-> rs]

NoBinding == Binding("none", <<>>)

\* no ScanList call is modelled
NoScanList ==
    /\ dst = <<>>
    /\ attrKind = "ptr"
    /\ shape = "sequence"
    /\ last = NoBinding
    /\ listErr = "none"

----------------------------------------------------------------------------
(* Clause builders *)

\* the pgsql quoting without strings.TrimSpace
PgsqlQuoteFieldUntrimmed(f) ==
    LET field == f IN
    IF field = "*" THEN "*"
    ELSE IF HasPrefix(ToUpper(field), "OLD.") THEN
        IF SubSeq(field, 5, Len(field)) = "*" THEN "OLD.*"
        ELSE "OLD.\"" \o SubSeq(field, 5, Len(field)) \o "\""
    ELSE IF HasPrefix(ToUpper(field), "NEW.") THEN
        IF SubSeq(field, 5, Len(field)) = "*" THEN "NEW.*"
        ELSE "NEW.\"" \o SubSeq(field, 5, Len(field)) \o "\""
    ELSE "\"" \o field \o "\""

\* one field of the pgsql clause
PgsqlQuoteField(f) ==
    LET field == TrimSpace(f) IN
    IF field = "*" THEN "*"
    ELSE IF HasPrefix(ToUpper(field), "OLD.") THEN
        IF SubSeq(field, 5, Len(field)) = "*" THEN "OLD.*"
        ELSE "OLD.\"" \o SubSeq(field, 5, Len(field)) \o "\""
    ELSE IF HasPrefix(ToUpper(field), "NEW.") THEN
        IF SubSeq(field, 5, Len(field)) = "*" THEN "NEW.*"
        ELSE "NEW.\"" \o SubSeq(field, 5, Len(field)) \o "\""
    ELSE "\"" \o field \o "\""

\* pgsql buildReturningClause
PgsqlBuildReturningClause(fields) ==
    IF Len(fields) = 0 THEN ""
    ELSE "RETURNING " \o Join([i \in 1..Len(fields) |-> PgsqlQuoteField(fields[i])], ", ")

\* the backquote character of the sqlite driver (a TLA+ string cannot hold it)
Backquote == "^"

SqliteQuoteField(f) ==
    LET field == TrimSpace(f) IN
    IF field = "*" THEN "*" ELSE Backquote \o field \o Backquote

\* sqlite buildReturningClause
SqliteBuildReturningClause(fields) ==
    IF Len(fields) = 0 THEN ""
    ELSE "RETURNING " \o Join([i \in 1..Len(fields) |-> SqliteQuoteField(fields[i])], ", ")

----------------------------------------------------------------------------
(* Links *)

\* Link.IsTransaction
IsTransaction(l) == l \in {"txArg", "txCtx"}

\* Core.MasterLink
MasterLink ==
    IF fail = "master" THEN [link |-> "nil", err |-> "MasterLinkError"]
    ELSE [link |-> "master", err |-> "none"]

\* ResolveLink with the context's transaction preferred over any given link
ResolveLinkCtxFirst(l, c) ==
    IF TXFromCtx(c) # "nil" THEN [link |-> TXFromCtx(c), err |-> "none"]
    ELSE IF l = "nil" THEN MasterLink
    ELSE [link |-> l, err |-> "none"]

\* ResolveLink that keeps every given link
ResolveLinkKeepGiven(l, c) ==
    IF l = "nil" THEN
        IF TXFromCtx(c) # "nil" THEN [link |-> TXFromCtx(c), err |-> "none"]
        ELSE MasterLink
    ELSE [link |-> l, err |-> "none"]

\* "Transaction checks" of pgsql DoExec
ResolveLink(l, c) ==
    IF l = "nil" THEN
        IF TXFromCtx(c) # "nil" THEN [link |-> TXFromCtx(c), err |-> "none"]
        ELSE MasterLink
    ELSE IF ~IsTransaction(l) THEN
        IF TXFromCtx(c) # "nil" THEN [link |-> TXFromCtx(c), err |-> "none"]
        ELSE [link |-> l, err |-> "none"]
    ELSE [link |-> l, err |-> "none"]

\* "Transaction checks" of sqlite DoExec
SqliteResolveLink(l, c) ==
    IF l = "nil" THEN
        IF TXFromCtx(c) # "nil" THEN [link |-> TXFromCtx(c), err |-> "none"]
        ELSE MasterLink
    ELSE IF ~IsTransaction(l) THEN
        IF TXFromCtx(c) # "nil" THEN [link |-> TXFromCtx(c), err |-> "none"]
        ELSE [link |-> l, err |-> "none"]
    ELSE [link |-> l, err |-> "none"]

\* link resolution of Core.DoExec
CoreResolveLink(l, c) ==
    IF l = "nil" THEN
        IF TXFromCtx(c) # "nil" THEN [link |-> TXFromCtx(c), err |-> "none"]
        ELSE MasterLink
    ELSE IF ~IsTransaction(l) THEN
        IF TXFromCtx(c) # "nil" THEN [link |-> TXFromCtx(c), err |-> "none"]
        ELSE [link |-> l, err |-> "none"]
    ELSE [link |-> l, err |-> "none"]

----------------------------------------------------------------------------
(* The database behind a link *)

\* the i-th row the statement inserts, updates or deletes, as stored afterwards
\* (for a delete: as it was stored)
FullRow(i) == [id |-> i, name |-> IF op = "update" THEN 200 ELSE 100 + i]

\* the columns a RETURNING clause built from the field list asks for
ReturnedColumns(fields) ==
    IF \E i \in 1..Len(fields) : TrimSpace(fields[i]) = "*" THEN AllColumns
    ELSE {TrimSpace(fields[i]) : i \in 1..Len(fields)}

\* rows a RETURNING statement produces: one per affected row, in statement order
ReturnedRows(cols) == [i \in 1..nRows |-> [c \in cols |-> FullRow(i)[c]]]

\* the native driver's sql.Result of an exec
NativeResult ==
    [type |-> "sql.Result", affected |-> nRows,
     lastInsertId |-> IF op = "insert" THEN nRows ELSE 0,
     lastInsertIdError |-> "none", records |-> <<>>, recordsNil |-> TRUE,
     embedded |-> FALSE]

NilResult ==
    [type |-> "nil", affected |-> 0, lastInsertId |-> 0,
     lastInsertIdError |-> "none", records |-> <<>>, recordsNil |-> TRUE,
     embedded |-> FALSE]

Statement(via, type, l, s) == [via |-> via, type |-> type, link |-> l, sql |-> s]

\* Core.DoFilter
DoFilter == IF fail = "filter" THEN "FilterError" ELSE "none"

\* Core.DoCommit with Type = SqlTypeQueryContext: out.Records are the rows read
\* back (nil when there are none), out.Result stays nil; the database rejects
\* a column the table does not have
DoCommitQuery(cols) ==
    IF fail = "commit" \/ ~(cols \subseteq AllColumns)
    THEN [err |-> "CommitError", Records |-> <<>>, RecordsNil |-> TRUE, ResultNil |-> TRUE]
    ELSE [err |-> "none", Records |-> ReturnedRows(cols), RecordsNil |-> (nRows = 0),
          ResultNil |-> TRUE]

Outcome(l, s, stmts, r, e) == [link |-> l, sql |-> s, sent |-> stmts, result |-> r, err |-> e]

\* Core.DoExec: the plain exec path
CoreDoExec(c, l, s) ==
    LET rl == CoreResolveLink(l, c) IN
    IF rl.err # "none" THEN Outcome("nil", s, <<>>, NilResult, rl.err)
    ELSE IF DoFilter # "none" THEN Outcome(rl.link, s, <<>>, NilResult, DoFilter)
    ELSE IF fail = "commit"
    THEN Outcome(rl.link, s, <<Statement("Core.DoExec", "ExecContext", rl.link, s)>>,
                 NilResult, "CommitError")
    ELSE Outcome(rl.link, s, <<Statement("Core.DoExec", "ExecContext", rl.link, s)>>,
                 NativeResult, "none")

----------------------------------------------------------------------------
(* Result *)

\* pgsql Result{affected, lastInsertId, lastInsertIdError, records}
PgsqlResult(n, id, idErr, recs, recsNil) ==
    [type |-> "pgsql.Result", affected |-> n, lastInsertId |-> id,
     lastInsertIdError |-> idErr, records |-> recs, recordsNil |-> recsNil,
     embedded |-> FALSE]

\* sqlite Result{Result, records}
SqliteResult(out) ==
    [type |-> "sqlite.Result", affected |-> 0, lastInsertId |-> 0,
     lastInsertIdError |-> "none", records |-> out.Records,
     recordsNil |-> out.RecordsNil, embedded |-> ~out.ResultNil]

\* pgsql Result.RowsAffected
PgsqlRowsAffected(r) == IF ~r.recordsNil THEN Len(r.records) ELSE r.affected

\* pgsql Result.LastInsertId
PgsqlLastInsertId(r) == [value |-> r.lastInsertId, err |-> r.lastInsertIdError]

\* RowsAffected that looks at the embedded sql.Result only
SqliteRowsAffectedEmbedded(r) == IF r.embedded THEN r.affected ELSE 0

\* sqlite Result.RowsAffected
SqliteRowsAffected(r) ==
    IF ~r.recordsNil THEN Len(r.records)
    ELSE IF r.embedded THEN r.affected
    ELSE 0

\* sqlite Result.LastInsertId
SqliteLastInsertId(r) ==
    IF r.embedded THEN [value |-> r.lastInsertId, err |-> r.lastInsertIdError]
    ELSE [value |-> 0, err |-> "none"]

\* sqlite Result.GetRecords
SqliteGetRecords(r) == [isNil |-> r.recordsNil, rows |-> r.records]

\* pgsql Result.GetRecords
PgsqlGetRecords(r) == [isNil |-> r.recordsNil, rows |-> r.records]

\* RowsAffected of whatever sql.Result the call returned
RowsAffected(r) ==
    CASE r.type = "pgsql.Result" -> PgsqlRowsAffected(r)
      [] r.type = "sqlite.Result" -> SqliteRowsAffected(r)
      [] OTHER -> r.affected

\* LastInsertId of whatever sql.Result the call returned
LastInsertId(r) ==
    CASE r.type = "pgsql.Result" -> PgsqlLastInsertId(r)
      [] r.type = "sqlite.Result" -> SqliteLastInsertId(r)
      [] OTHER -> [value |-> r.lastInsertId, err |-> r.lastInsertIdError]

\* the type assertion result.(gdb.ReturningResult)
IsReturningResult(r) == r.type \in {"pgsql.Result", "sqlite.Result"}

----------------------------------------------------------------------------
(* pgsql driver *)

\* the automatic RETURNING decision without the check of the hint's name
PgsqlIsAutoReturningAnyName(c, s) ==
    /\ Len(GetReturningFromCtx(c)) = 0
    /\ c.pk.kind = "TableField"
    /\ Contains(s, "INSERT INTO")

\* the RETURNING decision of pgsql DoExec
PgsqlIsUserReturning(c) == Len(GetReturningFromCtx(c)) > 0

PgsqlIsAutoReturning(c, s) ==
    /\ ~PgsqlIsUserReturning(c)
    /\ c.pk.kind # "none"
    /\ c.pk.kind = "TableField"
    /\ c.pk.Name # ""
    /\ Contains(s, "INSERT INTO")

\* a statement that gets a RETURNING clause whatever the context holds
PgsqlSqlAlwaysReturning(c, s) ==
    IF PgsqlIsUserReturning(c) THEN s \o " " \o PgsqlBuildReturningClause(GetReturningFromCtx(c))
    ELSE IF PgsqlIsAutoReturning(c, s) THEN s \o " RETURNING \"" \o c.pk.Name \o "\""
    ELSE s \o " RETURNING *"

PgsqlSql(c, s) ==
    IF PgsqlIsUserReturning(c) THEN s \o " " \o PgsqlBuildReturningClause(GetReturningFromCtx(c))
    ELSE IF PgsqlIsAutoReturning(c, s) THEN s \o " RETURNING \"" \o c.pk.Name \o "\""
    ELSE s

PgsqlIsIntType(t) == Contains(t, "int")

\* PgsqlBuildResult that takes lastInsertId from the first row read back
PgsqlBuildResultFirstRow(isUserReturning, pkField, out) ==
    LET affected == Len(out.Records)
        primaryKey == pkField.Name
    IN  IF isUserReturning
        THEN PgsqlResult(affected, 0, "NotSupported", out.Records, out.RecordsNil)
        ELSE IF affected > 0 /\ ~PgsqlIsIntType(pkField.Type)
        THEN PgsqlResult(affected, 0, "NotSupported", <<>>, TRUE)
        ELSE IF affected > 0 /\ primaryKey \in DOMAIN out.Records[1]
        THEN PgsqlResult(affected, out.Records[1][primaryKey], "none", <<>>, TRUE)
        ELSE PgsqlResult(0, 0, "none", <<>>, TRUE)

\* the Result pgsql DoExec builds from the rows read back
PgsqlBuildResult(isUserReturning, pkField, out) ==
    LET affected == Len(out.Records)
        primaryKey == pkField.Name
    IN  IF isUserReturning
        THEN PgsqlResult(affected, 0, "NotSupported", out.Records, out.RecordsNil)
        ELSE IF affected > 0 /\ ~PgsqlIsIntType(pkField.Type)
        THEN PgsqlResult(affected, 0, "NotSupported", <<>>, TRUE)
        ELSE IF affected > 0 /\ primaryKey \in DOMAIN out.Records[affected]
        THEN PgsqlResult(affected, out.Records[affected][primaryKey], "none", <<>>, TRUE)
        ELSE PgsqlResult(0, 0, "none", <<>>, TRUE)

\* a DoExec that commits the statement before it runs DoFilter
PgsqlDoExecCommitsBeforeFilter(c, l, s) ==
    LET rl == ResolveLink(l, c) IN
    IF rl.err # "none" THEN Outcome("nil", s, <<>>, NilResult, rl.err)
    ELSE IF ~PgsqlIsUserReturning(c) /\ ~PgsqlIsAutoReturning(c, s)
    THEN CoreDoExec(c, rl.link, PgsqlSql(c, s))
    ELSE LET cols == IF PgsqlIsUserReturning(c)
                     THEN ReturnedColumns(GetReturningFromCtx(c)) ELSE {c.pk.Name}
             out == DoCommitQuery(cols)
             stmt == Statement("DoCommit", "QueryContext", rl.link, PgsqlSql(c, s))
         IN  IF DoFilter # "none"
             THEN Outcome(rl.link, PgsqlSql(c, s), <<stmt>>, NilResult, DoFilter)
             ELSE IF out.err # "none"
             THEN Outcome(rl.link, PgsqlSql(c, s), <<stmt>>, NilResult, out.err)
             ELSE Outcome(rl.link, PgsqlSql(c, s), <<stmt>>,
                          PgsqlBuildResult(PgsqlIsUserReturning(c), c.pk, out), "none")

\* pgsql Driver.DoExec
PgsqlDoExec(c, l, s) ==
    LET rl == ResolveLink(l, c) IN
    IF rl.err # "none" THEN Outcome("nil", s, <<>>, NilResult, rl.err)
    ELSE IF ~PgsqlIsUserReturning(c) /\ ~PgsqlIsAutoReturning(c, s)
    THEN CoreDoExec(c, rl.link, PgsqlSql(c, s))
    ELSE IF DoFilter # "none" THEN Outcome(rl.link, PgsqlSql(c, s), <<>>, NilResult, DoFilter)
    ELSE LET cols == IF PgsqlIsUserReturning(c)
                     THEN ReturnedColumns(GetReturningFromCtx(c)) ELSE {c.pk.Name}
             out == DoCommitQuery(cols)
             stmt == Statement("DoCommit", "QueryContext", rl.link, PgsqlSql(c, s))
         IN  IF out.err # "none"
             THEN Outcome(rl.link, PgsqlSql(c, s), <<stmt>>, NilResult, out.err)
             ELSE Outcome(rl.link, PgsqlSql(c, s), <<stmt>>,
                          PgsqlBuildResult(PgsqlIsUserReturning(c), c.pk, out), "none")

----------------------------------------------------------------------------
(* sqlite driver *)

\* sqlite Driver.DoExec that reads the driver's own context key
SqliteDoExec(c, l, s) ==
    LET v == c.returning_fields IN
    IF v.kind # "none" /\ v.kind = "strings" /\ Len(v.fields) > 0
    THEN CoreDoExec(c, l, s \o " " \o SqliteBuildReturningClause(v.fields))
    ELSE CoreDoExec(c, l, s)

\* a DoExec that hands back the Result of a commit that failed
SqliteQueryDoExecKeepsResult(c, l, s) ==
    LET returningFields == GetReturningFromCtx(c) IN
    IF Len(returningFields) = 0 THEN CoreDoExec(c, l, s)
    ELSE LET sql2 == s \o " " \o SqliteBuildReturningClause(returningFields)
             rl == SqliteResolveLink(l, c)
         IN  IF rl.err # "none" THEN Outcome("nil", sql2, <<>>, NilResult, rl.err)
             ELSE IF DoFilter # "none" THEN Outcome(rl.link, sql2, <<>>, NilResult, DoFilter)
             ELSE LET out == DoCommitQuery(ReturnedColumns(returningFields))
                      stmt == Statement("DoCommit", "QueryContext", rl.link, sql2)
                  IN  Outcome(rl.link, sql2, <<stmt>>, SqliteResult(out), out.err)

\* sqlite Driver.DoExec that executes the statement as a query
SqliteQueryDoExec(c, l, s) ==
    LET returningFields == GetReturningFromCtx(c) IN
    IF Len(returningFields) = 0 THEN CoreDoExec(c, l, s)
    ELSE LET sql2 == s \o " " \o SqliteBuildReturningClause(returningFields)
             rl == SqliteResolveLink(l, c)
         IN  IF rl.err # "none" THEN Outcome("nil", sql2, <<>>, NilResult, rl.err)
             ELSE IF DoFilter # "none" THEN Outcome(rl.link, sql2, <<>>, NilResult, DoFilter)
             ELSE LET out == DoCommitQuery(ReturnedColumns(returningFields))
                      stmt == Statement("DoCommit", "QueryContext", rl.link, sql2)
                  IN  IF out.err # "none"
                      THEN Outcome(rl.link, sql2, <<stmt>>, NilResult, out.err)
                      ELSE Outcome(rl.link, sql2, <<stmt>>, SqliteResult(out), "none")

\* sqlite Driver.DoExec that appends the clause and execs
SqlitePlainDoExec(c, l, s) ==
    IF Len(GetReturningFromCtx(c)) > 0
    THEN CoreDoExec(c, l, s \o " " \o SqliteBuildReturningClause(GetReturningFromCtx(c)))
    ELSE CoreDoExec(c, l, s)

----------------------------------------------------------------------------
(* a dialect without returning support (MySQL, ClickHouse) *)

DefaultDoExecRejecting(c, l, s) ==
    IF Len(GetReturningFromCtx(c)) > 0
    THEN Outcome("nil", s, <<>>, NilResult, "NotSupported")
    ELSE CoreDoExec(c, l, s)

\* the driver has no RETURNING handling: a returning list in the context is
\* silently ignored and the statement takes the plain exec path
DefaultDoExec(c, l, s) == CoreDoExec(c, l, s)

----------------------------------------------------------------------------
(* The call *)

\* entry points of a mutation: Insert/Update/Delete, or their *AndScan helper
Helpers == {"Exec", "AndScan"}

\* Model.ReturningAll
ReturningAll == <<"*">>

\* SQL text Core.DoInsert builds for the insert option
InsertSql(option) ==
    CASE option = "InsertOptionReplace" -> "REPLACE INTO t(name) VALUES(?)"
      [] option = "InsertOptionIgnore" -> "INSERT IGNORE INTO t(name) VALUES(?)"
      [] option = "InsertOptionSave" ->
            "INSERT INTO t(name) VALUES(?) ON DUPLICATE KEY UPDATE name=VALUES(name)"
      [] OTHER -> "INSERT INTO t(name) VALUES(?)"

\* SQL text the model builds for the operation, before any driver touches it
ModelSql ==
    CASE op = "insert" -> InsertSql(insertOption)
      [] op = "update" -> "UPDATE t SET name=?"
      [] OTHER -> "DELETE FROM t"

\* no call is in flight
Init ==
    /\ pc = "idle"
    /\ helper = "Exec"
    /\ scanErr = "none"
    /\ dest = <<>>
    /\ drv = "pgsql"
    /\ op = "insert"
    /\ insertOption = "InsertOptionDefault"
    /\ returning = <<>>
    /\ linkArg = "nil"
    /\ tableName = "t_int"
    /\ nRows = 1
    /\ fail = "none"
    /\ ctx = EmptyCtx("nil", NoHint)
    /\ sql = ""
    /\ link = "nil"
    /\ sent = <<>>
    /\ result = NilResult
    /\ err = "none"
    /\ NoConcurrentCalls
    /\ NoScanList
    /\ pgVersion = "PostgreSQL 18.0"
    /\ NoTablesCall
    /\ commitOut = <<>>

\* the caller starts a mutation: Model(table).Ctx(ctx).Data(rows).Returning(fields)
Call ==
    /\ pc = "idle"
    /\ \E hp \in Helpers, d \in Drivers, o \in Ops, io \in InsertOptions,
          r \in ReturningLists, l \in LinkArgs, tx \in CtxTxs, t \in TableNames,
          n \in 0..MaxRows, f \in Failures, h \in CallerHints :
        /\ hp = "AndScan" => r = ReturningAll
        /\ helper' = hp
        /\ o # "insert" => io = "InsertOptionDefault"
        /\ o = "insert" => n >= 1
        /\ d # "pgsql" => (t = "t_int" /\ h = NoHint /\ f # "tableFields")
        /\ drv' = d
        /\ op' = o
        /\ insertOption' = io
        /\ returning' = r
        /\ linkArg' = l
        /\ tableName' = t
        /\ nRows' = n
        /\ fail' = f
        /\ ctx' = EmptyCtx(tx, h)
    /\ pc' = "model"
    /\ sql' = ""
    /\ link' = "nil"
    /\ sent' = <<>>
    /\ result' = NilResult
    /\ err' = "none"
    /\ scanErr' = "none"
    /\ dest' = <<>>
    /\ UNCHANGED otherVars

\* Core.DoInsert: builds the statement and hands it to the driver's DoExec
CoreDoInsert(c) ==
    /\ ctx' = c
    /\ sql' = InsertSql(insertOption)
    /\ pc' = "exec"
    /\ UNCHANGED <<otherVars, helper, scanErr, dest, drv, op, insertOption, returning, linkArg, tableName, nRows,
                   fail, link, sent, result, err>>

\* hints restricted to a table's single integer primary key
PgsqlPrimaryKeyHintsSingleInteger(c) ==
    IF insertOption = "InsertOptionDefault" /\ Len(returning) = 0
       /\ fail # "tableFields" /\ Cardinality(PrimaryKeys(tableName)) = 1
       /\ \A f \in PrimaryKeys(tableName) : f.Type \in IntegerTypes
    THEN {[c EXCEPT !.pk = f] : f \in PrimaryKeys(tableName)}
    ELSE {c}

\* the primary-key hints pgsql DoInsert can put into the context
PgsqlPrimaryKeyHints(c) ==
    IF insertOption = "InsertOptionDefault" /\ Len(returning) = 0
       /\ fail # "tableFields" /\ PrimaryKeys(tableName) # {}
    THEN {[c EXCEPT !.pk = f] : f \in PrimaryKeys(tableName)}
    ELSE {c}

\* a DoInsert that treats the Replace option like every other option
PgsqlDoInsertReplaceAllowed ==
    /\ pc = "model"
    /\ drv = "pgsql"
    /\ op = "insert"
    /\ \E c \in PgsqlPrimaryKeyHints(ctx) :
           CoreDoInsert(IF Len(returning) > 0 THEN InjectReturning(c, returning) ELSE c)

\* pgsql Driver.DoInsert
PgsqlDoInsert ==
    /\ pc = "model"
    /\ drv = "pgsql"
    /\ op = "insert"
    /\ IF insertOption = "InsertOptionReplace"
       THEN /\ err' = "NotSupported"
            /\ pc' = "done"
            /\ UNCHANGED <<otherVars, helper, scanErr, dest, drv, op, insertOption, returning, linkArg, tableName,
                           nRows, fail, ctx, sql, link, sent, result>>
       ELSE \E c \in PgsqlPrimaryKeyHints(ctx) :
                CoreDoInsert(IF Len(returning) > 0 THEN InjectReturning(c, returning) ELSE c)

\* sqlite Driver.DoInsert that passes the list with gdb.InjectReturning
SqliteDoInsert ==
    /\ pc = "model"
    /\ drv \in {"sqlite", "sqlite_query", "sqlite_plain"}
    /\ op = "insert"
    /\ CoreDoInsert(IF Len(returning) > 0 THEN InjectReturning(ctx, returning) ELSE ctx)

\* sqlite Driver.DoInsert that stores the list under the driver's own key
SqliteCtxKeyDoInsert ==
    /\ pc = "model"
    /\ drv = "sqlite_ctxkey"
    /\ op = "insert"
    /\ CoreDoInsert(IF Len(returning) > 0
                    THEN [ctx EXCEPT !.returning_fields = StringsValue(returning)]
                    ELSE ctx)

\* a driver without a DoInsert of its own
DefaultDoInsert ==
    /\ pc = "model"
    /\ drv = "mysql"
    /\ op = "insert"
    /\ CoreDoInsert(ctx)

\* Model.Update / Model.Delete: the returning list travels in the context
ModelUpdateDelete ==
    /\ pc = "model"
    /\ op \in {"update", "delete"}
    /\ ctx' = InjectReturning(ctx, returning)
    /\ sql' = ModelSql
    /\ pc' = "exec"
    /\ UNCHANGED <<otherVars, helper, scanErr, dest, drv, op, insertOption, returning, linkArg, tableName, nRows,
                   fail, link, sent, result, err>>

Finish(o) ==
    /\ link' = o.link
    /\ sql' = o.sql
    /\ sent' = sent \o o.sent
    /\ result' = o.result
    /\ err' = o.err
    /\ pc' = "done"
    /\ UNCHANGED <<otherVars, helper, scanErr, dest, drv, op, insertOption, returning, linkArg, tableName, nRows,
                   fail, ctx>>

PgsqlExec == pc = "exec" /\ drv = "pgsql" /\ Finish(PgsqlDoExec(ctx, linkArg, sql))

SqliteExec ==
    pc = "exec" /\ drv \in {"sqlite", "sqlite_ctxkey"} /\ Finish(SqliteDoExec(ctx, linkArg, sql))

SqliteQueryExec ==
    pc = "exec" /\ drv = "sqlite_query" /\ Finish(SqliteQueryDoExec(ctx, linkArg, sql))

SqlitePlainExec ==
    pc = "exec" /\ drv = "sqlite_plain" /\ Finish(SqlitePlainDoExec(ctx, linkArg, sql))

DefaultExec == pc = "exec" /\ drv = "mysql" /\ Finish(DefaultDoExec(ctx, linkArg, sql))

\* a conversion that hands back every result, ReturningResult or not
SqlResultToReturningAlways(r) == r

\* SqlResultToReturning: the result itself when it implements ReturningResult
SqlResultToReturning(r) == IF IsReturningResult(r) THEN r ELSE NilResult

\* GetRecords of a ReturningResult
GetRecords(r) ==
    IF r.type = "sqlite.Result" THEN SqliteGetRecords(r) ELSE PgsqlGetRecords(r)

\* Result.Structs: every record becomes one element of the destination
Structs(records) == [err |-> "none", dest |-> records]

\* the helper without its check of the ReturningResult conversion
ScanReturningUnchecked(r, e) ==
    IF e # "none" THEN [err |-> e, dest |-> <<>>]
    ELSE IF GetRecords(r).isNil \/ Len(GetRecords(r).rows) = 0
         THEN [err |-> "NotFound", dest |-> <<>>]
    ELSE Structs(GetRecords(r).rows)

\* the helper without its check for an empty record set
ScanReturningEmptyAllowed(r, e) ==
    IF e # "none" THEN [err |-> e, dest |-> <<>>]
    ELSE IF SqlResultToReturning(r).type = "nil"
         THEN [err |-> "NotSupported", dest |-> <<>>]
    ELSE Structs(GetRecords(SqlResultToReturning(r)).rows)

\* what an *AndScan helper does with the (result, err) of its mutation
ScanReturning(r, e) ==
    IF e # "none" THEN [err |-> e, dest |-> <<>>]
    ELSE IF SqlResultToReturning(r).type = "nil"
         THEN [err |-> "NotSupported", dest |-> <<>>]
    ELSE IF GetRecords(SqlResultToReturning(r)).isNil
            \/ Len(GetRecords(SqlResultToReturning(r)).rows) = 0
         THEN [err |-> "NotFound", dest |-> <<>>]
    ELSE Structs(GetRecords(SqlResultToReturning(r)).rows)

AndScan ==
    /\ pc = "done"
    /\ helper = "AndScan"
    /\ scanErr' = ScanReturning(result, err).err
    /\ dest' = ScanReturning(result, err).dest
    /\ pc' = "scanned"
    /\ UNCHANGED <<otherVars, helper, drv, op, insertOption, returning, linkArg, tableName,
                   nRows, fail, ctx, sql, link, sent, result, err>>

\* InsertAndScan, InsertIgnoreAndScan, SaveAndScan, ReplaceAndScan
InsertAndScan == op = "insert" /\ AndScan

UpdateAndScan == op = "update" /\ AndScan

DeleteAndScan == op = "delete" /\ AndScan

\* the call returns (result, err) to the caller; the call's values are dropped
Return ==
    /\ \/ pc = "done" /\ helper = "Exec"
       \/ pc = "scanned"
    /\ pc' = "idle"
    /\ helper' = "Exec"
    /\ scanErr' = "none"
    /\ dest' = <<>>
    /\ drv' = "pgsql"
    /\ op' = "insert"
    /\ insertOption' = "InsertOptionDefault"
    /\ returning' = <<>>
    /\ linkArg' = "nil"
    /\ tableName' = "t_int"
    /\ nRows' = 1
    /\ fail' = "none"
    /\ ctx' = EmptyCtx("nil", NoHint)
    /\ sql' = ""
    /\ link' = "nil"
    /\ sent' = <<>>
    /\ result' = NilResult
    /\ err' = "none"
    /\ UNCHANGED otherVars

Next ==
    \/ Call
    \/ PgsqlDoInsert
    \/ SqliteDoInsert
    \/ SqliteCtxKeyDoInsert
    \/ DefaultDoInsert
    \/ ModelUpdateDelete
    \/ PgsqlExec
    \/ SqliteExec
    \/ SqliteQueryExec
    \/ SqlitePlainExec
    \/ DefaultExec
    \/ InsertAndScan
    \/ UpdateAndScan
    \/ DeleteAndScan
    \/ Return

Spec == Init /\ [][Next]_vars

----------------------------------------------------------------------------
(* Properties *)

Done == pc = "done"

\* the call was started with an explicit returning field list
Explicit == Len(returning) > 0

\* every statement of the call went to link l
SentOn(l) == \A i \in 1..Len(sent) : sent[i].link = l

\* the call took the plain exec path with the statement the model built
PlainExec ==
    /\ sql = ModelSql
    /\ \A i \in 1..Len(sent) :
          sent[i].via = "Core.DoExec" /\ sent[i].type = "ExecContext" /\ sent[i].sql = ModelSql

\* pgsql DoExec appended its automatic RETURNING "<pk>" clause
PgsqlAutoClauseAppended ==
    /\ drv = "pgsql"
    /\ \E f \in Schema[tableName] : sql = ModelSql \o " RETURNING \"" \o f.Name \o "\""

\* the i-th returned record carries the values of the i-th row of the statement
RecordOfRow(rec, i) == \A c \in DOMAIN rec : rec[c] = FullRow(i)[c]

\* C1: after a mutation executed with an explicit returning field list,
\* LastInsertId() on the returned pgsql or sqlite Result yields a NotSupported
\* error, never a value.
C1_ExplicitLastInsertIdNotSupported ==
    (Done /\ err = "none" /\ Explicit /\ IsReturningResult(result))
        => LastInsertId(result).err = "NotSupported"


C4_RowsAffectedIsRecordCount ==
    (Done /\ err = "none")
        => IF ~result.recordsNil
           THEN RowsAffected(result) = Len(result.records)
           ELSE RowsAffected(result) = nRows

\* a sqlite Result carrying records was returned
C4_Witness ==
    /\ Done /\ err = "none" /\ result.type = "sqlite.Result"
    /\ ~result.recordsNil /\ Len(result.records) >= 2

\* C5: inserting N rows with an explicit returning list, on a dialect with
\* insert-returning support, yields exactly N records, the i-th for the i-th
\* input row, and RowsAffected() = N.
C5_BatchInsertReturnsOneRecordPerRow ==
    (Done /\ err = "none" /\ op = "insert" /\ Explicit /\ drv # "mysql")
        => /\ IsReturningResult(result)
           /\ Len(result.records) = nRows
           /\ \A i \in 1..Len(result.records) : RecordOfRow(result.records[i], i)
           /\ RowsAffected(result) = nRows


\* C6: with no link given, DoExec executes on the transaction bound to the
\* call's context if there is one, otherwise on a master link (returning
\* MasterLink's error and sending nothing if that fails); a given link that is
\* itself a transaction is the one used, even if the context carries one too.
C6_LinkResolution ==
    (Done /\ drv \in {"pgsql", "sqlite_query"} /\ (op = "insert" => sql # ""))
        => /\ (linkArg = "nil" /\ ctx.tx # "nil")
                 => (SentOn(ctx.tx) /\ link = ctx.tx /\ err # "MasterLinkError")
           /\ (linkArg = "nil" /\ ctx.tx = "nil")
                 => IF fail = "master"
                    THEN err = "MasterLinkError" /\ sent = <<>>
                    ELSE SentOn("master") /\ link = "master"
           /\ IsTransaction(linkArg) => (SentOn(linkArg) /\ link = linkArg)

\* a statement with a RETURNING clause ran on the given transaction although
\* the context carried another one
C6_Witness ==
    /\ Done /\ drv = "pgsql" /\ Explicit
    /\ linkArg = "txArg" /\ ctx.tx = "txCtx"
    /\ Len(sent) = 1 /\ sent[1].link = "txArg" /\ sent[1].type = "QueryContext"

\* C7 (as stated): whenever the caller supplies a link, transactional or not,
\* DoExec executes the statement on that same link.
C7_GivenLinkAlwaysUsed ==
    (Done /\ linkArg # "nil" /\ (op = "insert" => sql # ""))
        => (SentOn(linkArg) /\ link = linkArg)

\* C7 (amended): a given link that is a transaction is always the one used; a
\* given link that is not a transaction is used when the context carries no
\* transaction for the group, and is replaced by the context's transaction
\* when it does.
C7_GivenLinkUsedUnlessCtxTransaction ==
    (Done /\ linkArg # "nil" /\ (op = "insert" => sql # ""))
        => LET used == IF IsTransaction(linkArg) \/ ctx.tx = "nil"
                       THEN linkArg ELSE ctx.tx
           IN  SentOn(used) /\ link = used

\* a statement with a RETURNING clause ran on the context's transaction
\* instead of the given plain connection
C7_Witness ==
    /\ Done /\ drv = "pgsql" /\ Explicit
    /\ linkArg = "conn" /\ ctx.tx = "txCtx"
    /\ Len(sent) = 1 /\ sent[1].link = "txCtx" /\ sent[1].type = "QueryContext"

\* C8: on the pgsql automatic primary-key path, when the statement returned
\* k >= 1 rows and the key's type is not integer-compatible, RowsAffected() = k
\* and LastInsertId() returns NotSupported; a lastInsertId value is produced
\* only when the key type is integer-compatible.
C8_NonIntegerKeyHasNoLastInsertId ==
    (Done /\ err = "none" /\ PgsqlAutoClauseAppended /\ nRows >= 1)
        => /\ ctx.pk.Type \notin IntegerTypes
                 => /\ RowsAffected(result) = nRows
                    /\ LastInsertId(result).err = "NotSupported"
           /\ LastInsertId(result).err = "none" => ctx.pk.Type \in IntegerTypes

\* C9: on the automatic primary-key path with an integer key, LastInsertId()
\* returns, with no error, the primary-key value of the last row returned for
\* the batch, and RowsAffected() is the number of rows inserted.
C9_LastInsertIdIsLastRowKey ==
    (Done /\ err = "none" /\ PgsqlAutoClauseAppended /\ ctx.pk.Type \in IntegerTypes)
        => /\ LastInsertId(result) = [value |-> FullRow(nRows)[ctx.pk.Name], err |-> "none"]
           /\ RowsAffected(result) = nRows

\* a batch of two rows was inserted on the automatic path with an integer key
C9_Witness ==
    /\ Done /\ err = "none" /\ PgsqlAutoClauseAppended
    /\ ctx.pk.Type \in IntegerTypes /\ nRows >= 2
    /\ LastInsertId(result).value = nRows

\* the automatic fallback has no usable primary-key hint for this insert
C10_NoUsableHint ==
    \/ fail = "tableFields"
    \/ PrimaryKeys(tableName) = {}
    \/ ctx.pk.kind = "other"
    \/ (ctx.pk.kind = "TableField" /\ ctx.pk.Name = "")

\* C10: a failed TableFields lookup, a table with no primary-key column, or a
\* context hint that is not a TableField or has an empty name all lead an insert
\* without explicit list to the plain exec path, with no error added: the insert
\* succeeds with the native result whenever the plain insert would.
C10_FallbackDegradesToPlainExec ==
    (Done /\ drv = "pgsql" /\ op = "insert" /\ ~Explicit
          /\ insertOption # "InsertOptionReplace" /\ C10_NoUsableHint)
        => /\ PlainExec
           /\ fail \in {"none", "tableFields"}
                 => (err = "none" /\ result = NativeResult /\ Len(sent) = 1)
           /\ (fail = "master" /\ link # "nil")
                 => (err = "none" /\ result = NativeResult /\ Len(sent) = 1)

\* an insert into a table with a primary key succeeded on the plain path
\* although the TableFields lookup failed
C10_Witness ==
    /\ Done /\ drv = "pgsql" /\ op = "insert" /\ ~Explicit
    /\ fail = "tableFields" /\ tableName = "t_int"
    /\ err = "none" /\ result = NativeResult /\ PlainExec

\* the *AndScan helper has returned
Scanned == pc = "scanned"

\* every statement of the call went through Core.DoExec as a plain exec
OnlyPlainExecSent ==
    \A i \in 1..Len(sent) : sent[i].via = "Core.DoExec" /\ sent[i].type = "ExecContext"

\* C11: an *AndScan helper whose mutation succeeded with a result that does not
\* implement ReturningResult returns NotSupported, and a helper that returns
\* success has put at least one record, one per affected row, into the
\* destination.
C11_AndScanNotSupportedOrPopulated ==
    Scanned =>
        /\ (err = "none" /\ result.type \notin {"pgsql.Result", "sqlite.Result"})
              => (scanErr = "NotSupported" /\ dest = <<>>)
        /\ scanErr = "none" => (Len(dest) >= 1 /\ Len(dest) = nRows)

C11_Witness ==
    /\ Scanned
    /\ err = "none"
    /\ result.type = "sql.Result"
    /\ Len(sent) > 0
    /\ scanErr = "NotSupported"

\* C12: an *AndScan helper returns the mutation's error unchanged and scans
\* nothing; after a successful mutation with a ReturningResult it returns
\* NotFound when the result holds no record and otherwise scans every returned
\* record, in order, into the destination.
C12_AndScanNotFoundOrAllRows ==
    Scanned =>
        /\ err # "none" => (scanErr = err /\ dest = <<>>)
        /\ (err = "none" /\ IsReturningResult(result)
             /\ (result.recordsNil \/ Len(result.records) = 0))
              => (scanErr = "NotFound" /\ dest = <<>>)
        /\ (err = "none" /\ IsReturningResult(result) /\ Len(result.records) > 0)
              => (scanErr = "none" /\ dest = result.records
                  /\ \A i \in 1..Len(dest) : RecordOfRow(dest[i], i))

C12_Witness ==
    /\ Scanned
    /\ err = "none"
    /\ IsReturningResult(result)
    /\ nRows = 0
    /\ Len(sent) > 0
    /\ scanErr = "NotFound"

\* C13: a returned Result that carries no RETURNING data answers GetRecords
\* with nil, and SqlResultToReturning yields nil exactly for the results that
\* came back from the plain exec path, which do not implement ReturningResult.
C13_GetRecordsNilWithoutReturningData ==
    (Done /\ err = "none" /\ Len(sent) > 0) =>
        /\ (SqlResultToReturning(result).type = "nil") <=> OnlyPlainExecSent
        /\ (SqlResultToReturning(result).type = "nil") <=> ~IsReturningResult(result)
        /\ (IsReturningResult(result) /\ (~Explicit \/ nRows = 0))
              => (GetRecords(result).isNil /\ GetRecords(result).rows = <<>>)

C13_Witness ==
    /\ Done
    /\ err = "none"
    /\ result.type = "sqlite.Result"
    /\ Explicit
    /\ nRows = 0
    /\ GetRecords(result).isNil

----------------------------------------------------------------------------
(* buildReturningClause on its own *)

\* field names handed to buildReturningClause
FieldInputs == {"id", " name ", "*", "old.id", "NEW.*", " OLD.name"}

\* field lists of at most MaxFields names
ClauseInputs == UNION {[1..n -> FieldInputs] : n \in 0..MaxFields}

\* a field list is about to be handed to the driver's buildReturningClause
ClauseInit ==
    /\ pc = "clause"
    /\ drv \in {"pgsql", "sqlite"}
    /\ returning \in ClauseInputs
    /\ sql = ""
    /\ helper = "Exec"
    /\ op = "insert"
    /\ insertOption = "InsertOptionDefault"
    /\ linkArg = "nil"
    /\ tableName = "t_int"
    /\ nRows = 1
    /\ fail = "none"
    /\ ctx = EmptyCtx("nil", NoHint)
    /\ link = "nil"
    /\ sent = <<>>
    /\ result = NilResult
    /\ err = "none"
    /\ scanErr = "none"
    /\ dest = <<>>
    /\ NoConcurrentCalls
    /\ NoScanList
    /\ pgVersion \in Banners
    /\ NoTablesCall
    /\ commitOut = <<>>

\* buildReturningClause(fields) of the driver
BuildReturningClause ==
    /\ pc = "clause"
    /\ sql' = IF drv = "pgsql" THEN PgsqlBuildReturningClause(returning)
              ELSE SqliteBuildReturningClause(returning)
    /\ pc' = "built"
    /\ UNCHANGED <<otherVars, helper, drv, op, insertOption, returning, linkArg, tableName,
                   nRows, fail, ctx, link, sent, result, err, scanErr, dest>>

ClauseNext == BuildReturningClause

ClauseSpec == ClauseInit /\ [][ClauseNext]_vars

\* the identifier quote of the dialect
DialectQuote == IF drv = "pgsql" THEN "\"" ELSE Backquote

\* a name wrapped whole in the dialect's quote, the wildcard left bare
WrappedWhole(name) == IF name = "*" THEN "*" ELSE DialectQuote \o name \o DialectQuote

\* a trimmed name that carries the OLD. or NEW. row prefix in any letter case
RowPrefix(name) ==
    IF Len(name) >= 4 /\ ToUpper(SubSeq(name, 1, 4)) \in {"OLD.", "NEW."}
    THEN ToUpper(SubSeq(name, 1, 4)) ELSE ""

\* the pgsql form of a prefixed name: upper-case prefix, then the rest wrapped
PrefixedThenWrapped(name) ==
    RowPrefix(name) \o WrappedWhole(SubSeq(name, 5, Len(name)))

\* a trimmed name as the clause shows it; rowPrefixes tells whether the
\* OLD. and NEW. prefixes of pgsql are honoured
Rendered(name, rowPrefixes) ==
    IF rowPrefixes /\ drv = "pgsql" /\ RowPrefix(name) # ""
    THEN PrefixedThenWrapped(name)
    ELSE WrappedWhole(name)

RECURSIVE Listed(_, _)
\* "a, b, c" of the trimmed names of a non-empty list
Listed(fields, rowPrefixes) ==
    IF Len(fields) = 1 THEN Rendered(TrimSpace(fields[1]), rowPrefixes)
    ELSE Rendered(TrimSpace(fields[1]), rowPrefixes) \o ", "
         \o Listed(Tail(fields), rowPrefixes)

Built == pc = "built"

\* C14 as stated: the clause is "RETURNING " followed by the names in input
\* order joined by ", ", each trimmed and each but the wildcard wrapped whole in
\* the dialect's quote; an empty list gives the empty text.
C14_EveryNameWrappedWhole ==
    Built =>
        sql = IF Len(returning) = 0 THEN ""
              ELSE "RETURNING " \o Listed(returning, FALSE)

\* C14: the clause is "RETURNING " followed by the names in input order joined
\* by ", ", each trimmed; the wildcard stays bare, a name with the OLD. or NEW.
\* prefix becomes on pgsql the upper-case prefix followed by the rest wrapped in
\* double quotes (or by the bare wildcard), every other name is wrapped whole in
\* the dialect's quote; an empty list gives the empty text.
C14_NamesWrappedBehindRowPrefix ==
    Built =>
        sql = IF Len(returning) = 0 THEN ""
              ELSE "RETURNING " \o Listed(returning, TRUE)

C14_Witness ==
    /\ Built
    /\ drv = "pgsql"
    /\ returning = <<" name ", "old.id">>
    /\ sql = "RETURNING \"name\", OLD.\"id\""

----------------------------------------------------------------------------
(* Concurrent pgsql inserts on one parent context *)

\* tables the concurrent inserts target
ConcTables == {"t_nopk", "t_int", "t_composite"}

\* every call has entered pgsql DoInsert with the caller's context
ConcInit ==
    /\ pc = "idle"
    /\ helper = "Exec"
    /\ drv = "pgsql"
    /\ op = "insert"
    /\ insertOption = "InsertOptionDefault"
    /\ returning = <<>>
    /\ linkArg = "nil"
    /\ tableName = "t_int"
    /\ nRows = 1
    /\ fail = "none"
    /\ ctx = EmptyCtx("nil", NoHint)
    /\ sql = ""
    /\ link = "nil"
    /\ sent = <<>>
    /\ result = NilResult
    /\ err = "none"
    /\ scanErr = "none"
    /\ dest = <<>>
    /\ heap = <<Background>>
    /\ calls \in [ConcCalls -> {ConcurrentCall(r, t) : r \in ReturningLists, t \in ConcTables}]
    /\ NoScanList
    /\ pgVersion = "PostgreSQL 18.0"
    /\ NoTablesCall
    /\ commitOut = <<>>

\* pgsql DoInsert, the primary-key hint: put into a context derived from the call's
ConcPrimaryKeyHint(c) ==
    /\ calls[c].pc = "insert"
    /\ IF Len(calls[c].returning) = 0 /\ PrimaryKeys(calls[c].table) # {}
       THEN \E f \in PrimaryKeys(calls[c].table) :
                /\ heap' = WithValue(heap, calls[c].ctx, "pk", <<>>, f).heap
                /\ calls' = [calls EXCEPT ![c].pc = "hinted",
                                          ![c].ctx = WithValue(heap, calls[c].ctx, "pk", <<>>, f).ctx]
       ELSE /\ heap' = heap
            /\ calls' = [calls EXCEPT ![c].pc = "hinted"]
    /\ UNCHANGED <<callVars, listVars, restVars>>

\* pgsql DoInsert, the returning list: ctx = gdb.InjectReturning(ctx, option.Returning)
ConcInjectReturning(c) ==
    /\ calls[c].pc = "hinted"
    /\ heap' = InjectReturningInto(heap, calls[c].ctx, calls[c].returning).heap
    /\ calls' = [calls EXCEPT ![c].pc = "injected",
                              ![c].ctx = InjectReturningInto(heap, calls[c].ctx,
                                                             calls[c].returning).ctx]
    /\ UNCHANGED <<callVars, listVars, restVars>>

\* pgsql DoExec: reads the list and, without a list, the hint from its context
ConcDoExec(c) ==
    /\ calls[c].pc = "injected"
    /\ calls' = [calls EXCEPT
                    ![c].pc = "executed",
                    ![c].seen =
                        [fields |-> GetReturningFromCtx(ContextValues(heap, calls[c].ctx)),
                         hint |-> IF PgsqlIsUserReturning(ContextValues(heap, calls[c].ctx))
                                  THEN NoHint
                                  ELSE ContextValues(heap, calls[c].ctx).pk]]
    /\ UNCHANGED <<heap, callVars, listVars, restVars>>

ConcNext ==
    \/ \E c \in ConcCalls : ConcPrimaryKeyHint(c)
    \/ \E c \in ConcCalls : ConcInjectReturning(c)
    \/ \E c \in ConcCalls : ConcDoExec(c)

ConcSpec == ConcInit /\ [][ConcNext]_vars

\* C15: under every interleaving the caller's context stays as it was, a
\* call's context answers GetReturningFromCtx with the list that call injected
\* (nil when its list is empty), and DoExec acts on the call's own list or,
\* without a list, on a primary key of the call's own table.
C15_CallReadsItsOwnContext ==
    /\ heap[1] = Background
    /\ \A c \in ConcCalls :
          /\ calls[c].pc \in {"injected", "executed"}
                => GetReturningFromCtx(ContextValues(heap, calls[c].ctx)) = calls[c].returning
          /\ calls[c].pc = "executed"
                => /\ calls[c].seen.fields = calls[c].returning
                   /\ calls[c].seen.hint \in
                        IF Len(calls[c].returning) = 0 /\ PrimaryKeys(calls[c].table) # {}
                        THEN PrimaryKeys(calls[c].table)
                        ELSE {NoHint}

C15_Witness ==
    /\ \A c \in ConcCalls : calls[c].pc = "executed"
    /\ calls[1].returning = <<"id", "name">>
    /\ calls[1].seen.fields = <<"id", "name">>
    /\ calls[2].returning = <<>>
    /\ calls[2].table = "t_int"
    /\ calls[2].seen.hint.Name = "id"
    /\ calls[1].ctx > calls[2].ctx

\* C16: an update with an explicit returning list that matches k rows, on a
\* dialect with RETURNING support, returns a result with exactly k records that
\* hold the post-update values, and RowsAffected() = k.
C16_UpdateReturnsUpdatedRows ==
    (Done /\ err = "none" /\ op = "update" /\ Explicit /\ drv # "mysql")
        => /\ IsReturningResult(result)
           /\ Len(GetRecords(result).rows) = nRows
           /\ \A i \in 1..Len(GetRecords(result).rows) :
                 /\ RecordOfRow(GetRecords(result).rows[i], i)
                 /\ "name" \in DOMAIN GetRecords(result).rows[i]
                       => GetRecords(result).rows[i].name = 200
           /\ RowsAffected(result) = nRows

----------------------------------------------------------------------------
(* ScanList: binding RecordSets into a destination sequence                 *)
(* type S3 struct { Root *S1; One *S1; Many []*S2 }, or the same attributes *)
(* held by value                                                            *)

\* primary keys of the parent rows
Keys == {1, 2}

\* primary keys of the child rows
ChildIds == {100, 200}

\* parent rows: the RecordSet of the first ScanList(&s, "Root")
RootRecords == {[id |-> k] : k \in Keys}

\* one-to-one rows, with all columns or with the age column only
OneRecords ==
    {[id |-> k, name |-> "john", age |-> 16] : k \in Keys}
        \cup {[id |-> k, age |-> 20] : k \in Keys}

\* one-to-many rows, with all columns or without the name column
ManyRecords ==
    {[id |-> c, pid |-> k, name |-> "smith", age |-> 30] : c \in ChildIds, k \in Keys}
        \cup {[id |-> c, pid |-> k, age |-> 40] : c \in ChildIds, k \in Keys}

\* the non-empty RecordSets over a pool of rows; a primary key occurs once
RecordSets(pool) ==
    {rs \in UNION {[1..n -> pool] : n \in 1..MaxRelated} :
        \A i, j \in 1..Len(rs) : i # j => rs[i].id # rs[j].id}

\* column a struct field is scanned from
ColumnOf == [Id |-> "id", Pid |-> "pid", Name |-> "name", Age |-> "age"]

\* the zero value of S1 / S2
ZeroStruct == [Id |-> 0, Pid |-> 0, Name |-> "", Age |-> 0]

\* a struct scanned from a row into a fresh value
ScanIntoFresh(st, rec) ==
    [f \in DOMAIN st |-> IF ColumnOf[f] \in DOMAIN rec THEN rec[ColumnOf[f]] ELSE ZeroStruct[f]]

\* a row scanned into an existing struct: fields without a column stay
ScanInto(st, rec) ==
    [f \in DOMAIN st |-> IF ColumnOf[f] \in DOMAIN rec THEN rec[ColumnOf[f]] ELSE st[f]]

\* the zero value of a one-attribute: nil for a pointer, the zero struct by value
ZeroOne == [nil |-> attrKind = "ptr", v |-> ZeroStruct]

\* a destination element created for a parent row
Element(rec) ==
    [Root |-> ScanInto(ZeroStruct, rec), One |-> ZeroOne, Many |-> <<>>]

\* rows of the related RecordSet whose correlation column holds the key
Matches(rs, col, key) == SelectSeq(rs, LAMBDA r : r[col] = key)

\* cardinality one: the first match scanned into the attribute's struct
BindOne(cur, m) ==
    IF Len(m) = 0 THEN cur ELSE [nil |-> FALSE, v |-> ScanInto(cur.v, m[1])]

\* the struct of the attribute that was scanned from the row with this key
Existing(cur, id) ==
    IF \E k \in 1..Len(cur) : cur[k].Id = id
    THEN cur[CHOOSE k \in 1..Len(cur) : cur[k].Id = id]
    ELSE ZeroStruct

\* a many-binding that attaches the first match only
BindManyFirstOnly(cur, m) ==
    [j \in 1..(IF Len(m) > 0 THEN 1 ELSE 0) |-> ScanInto(Existing(cur, m[j].id), m[j])]

\* cardinality many: every match, in row order, scanned into its struct
BindMany(cur, m) == [j \in 1..Len(m) |-> ScanInto(Existing(cur, m[j].id), m[j])]

\* binding that allocates the element anew
RebindRecreated(e, attr, v) == [[Root |-> e.Root, One |-> ZeroOne, Many |-> <<>>] EXCEPT ![attr] = v]

\* the bound attribute is set on the existing element
Rebind(e, attr, v) == [e EXCEPT ![attr] = v]

ListInit ==
    /\ pc = "idle"
    /\ helper = "Exec"
    /\ drv = "pgsql"
    /\ op = "insert"
    /\ insertOption = "InsertOptionDefault"
    /\ returning = <<>>
    /\ linkArg = "nil"
    /\ tableName = "t_int"
    /\ nRows = 1
    /\ fail = "none"
    /\ ctx = EmptyCtx("nil", NoHint)
    /\ sql = ""
    /\ link = "nil"
    /\ sent = <<>>
    /\ result = NilResult
    /\ err = "none"
    /\ scanErr = "none"
    /\ dest = <<>>
    /\ NoConcurrentCalls
    /\ pgVersion = "PostgreSQL 18.0"
    /\ NoTablesCall
    /\ commitOut = <<>>
    /\ dst = <<>>
    /\ attrKind \in {"ptr", "struct"}
    /\ shape \in {"sequence", "wrong"}
    /\ last = NoBinding
    /\ listErr = "none"

\* r.ScanList(&s, "Root") on an empty destination: one element per row
ScanListRoot ==
    /\ shape = "sequence"
    /\ dst = <<>>
    /\ \E rs \in RecordSets(RootRecords) :
          /\ dst' = [i \in 1..Len(rs) |-> Element(rs[i])]
          /\ last' = Binding("Root", rs)
    /\ listErr' = "none"
    /\ UNCHANGED <<callVars, concVars, restVars, attrKind, shape>>

\* r.ScanList(&s, "One", "Root", "id:Id")
ScanListOne ==
    /\ shape = "sequence"
    /\ dst # <<>>
    /\ \E rs \in RecordSets(OneRecords) :
          /\ dst' = [i \in 1..Len(dst) |->
                        Rebind(dst[i], "One",
                               BindOne(dst[i].One, Matches(rs, "id", dst[i].Root.Id)))]
          /\ last' = Binding("One", rs)
    /\ listErr' = "none"
    /\ UNCHANGED <<callVars, concVars, restVars, attrKind, shape>>

\* r.ScanList(&s, "Many", "Root", "pid:Id")
ScanListMany ==
    /\ shape = "sequence"
    /\ dst # <<>>
    /\ \E rs \in RecordSets(ManyRecords) :
          /\ dst' = [i \in 1..Len(dst) |->
                        Rebind(dst[i], "Many",
                               BindMany(dst[i].Many, Matches(rs, "pid", dst[i].Root.Id)))]
          /\ last' = Binding("Many", rs)
    /\ listErr' = "none"
    /\ UNCHANGED <<callVars, concVars, restVars, attrKind, shape>>

\* ScanList on a pointer that is no sequence of structs fails and binds nothing
ScanListWrongShape ==
    /\ shape = "wrong"
    /\ listErr = "none"
    /\ listErr' = "InvalidParameter"
    /\ UNCHANGED <<callVars, concVars, restVars, dst, attrKind, shape, last>>

ListNext ==
    \/ ScanListRoot
    \/ ScanListOne
    \/ ScanListMany
    \/ ScanListWrongShape

ListSpec == ListInit /\ [][ListNext]_vars

\* the row agrees with the struct on every column the row carries
ScannedFrom(st, rec) ==
    \A f \in DOMAIN st : ColumnOf[f] \in DOMAIN rec => st[f] = rec[ColumnOf[f]]

\* C17: a ScanList call that binds One or Many into a populated destination
\* keeps the number and order of its elements and leaves the other attribute
\* of every element as the earlier call set it.
C17_BindingKeepsOtherAttribute ==
    [][(listErr' = "none" /\ dst # <<>> /\ last'.attr \in {"One", "Many"})
        => /\ Len(dst') = Len(dst)
           /\ \A i \in 1..Len(dst) :
                 /\ dst'[i].Root = dst[i].Root
                 /\ last'.attr = "One" => dst'[i].Many = dst[i].Many
                 /\ last'.attr = "Many" => dst'[i].One = dst[i].One]_vars

C17_Witness ==
    /\ last.attr = "One"
    /\ listErr = "none"
    /\ Len(dst) = 2
    /\ \A i \in 1..Len(dst) : Len(dst[i].Many) > 0 /\ ~dst[i].One.nil
    /\ dst[1].One.v.Name = "john"

\* C18: a ScanList call returns no error; after binding Many every element
\* holds exactly its matches of the related RecordSet, in row order, hence an
\* empty sequence without a match; binding One leaves the zero value of an
\* element that has no match.
C18_UnmatchedStaysZeroMatchedGetsAll ==
    [][(shape = "sequence" /\ dst # <<>> /\ last'.attr \in {"One", "Many"})
        => /\ listErr' = "none"
           /\ \A i \in 1..Len(dst') :
                 /\ last'.attr = "Many"
                      => /\ Len(dst'[i].Many)
                              = Len(Matches(last'.records, "pid", dst'[i].Root.Id))
                         /\ \A j \in 1..Len(dst'[i].Many) :
                               ScannedFrom(dst'[i].Many[j],
                                           Matches(last'.records, "pid", dst'[i].Root.Id)[j])
                 /\ (last'.attr = "One" /\ dst[i].One = ZeroOne
                     /\ Len(Matches(last'.records, "id", dst[i].Root.Id)) = 0)
                      => dst'[i].One = ZeroOne]_vars

C18_Witness ==
    /\ last.attr = "Many"
    /\ listErr = "none"
    /\ attrKind = "ptr"
    /\ Len(dst) = 2
    /\ Len(dst[1].Many) = 2
    /\ dst[1].Many[1].Id = 200
    /\ Len(dst[2].Many) = 0
    /\ dst[2].One.nil

\* C19: binding One again with rows that carry only some columns scans the
\* matching row into the struct the attribute already holds: a field whose
\* column is in the row takes the row's value, every other field keeps its
\* value, for an attribute held by pointer or by value.
C19_RebindKeepsAbsentColumns ==
    [][(listErr' = "none" /\ dst # <<>> /\ last'.attr = "One")
        => \A i \in 1..Len(dst) :
              (Len(Matches(last'.records, "id", dst[i].Root.Id)) > 0 /\ ~dst[i].One.nil)
                => /\ ~dst'[i].One.nil
                   /\ \A f \in DOMAIN ZeroStruct :
                         dst'[i].One.v[f] =
                            IF ColumnOf[f] \in DOMAIN Matches(last'.records, "id", dst[i].Root.Id)[1]
                            THEN Matches(last'.records, "id", dst[i].Root.Id)[1][ColumnOf[f]]
                            ELSE dst[i].One.v[f]]_vars

C19_Witness ==
    /\ last.attr = "One"
    /\ listErr = "none"
    /\ attrKind = "struct"
    /\ "name" \notin DOMAIN last.records[1]
    /\ \E i \in 1..Len(dst) :
          /\ dst[i].Root.Id = last.records[1].id
          /\ dst[i].One.v.Name = "john"
          /\ dst[i].One.v.Age = 20

\* DoExec appended a RETURNING clause for the call's explicit field list
ExplicitClauseAppended ==
    /\ drv # "mysql"
    /\ Explicit
    /\ sql # ModelSql
    /\ Contains(sql, " RETURNING ")

\* C20: a statement to which DoExec appended the RETURNING clause of an
\* explicit field list is committed as a query (SqlTypeQueryContext), never
\* through the plain exec path, and the records of the Result are exactly the
\* rows that query returned.
C20_ReturningClauseCommittedAsQuery ==
    (Done /\ ExplicitClauseAppended)
        => /\ \A i \in 1..Len(sent) :
                 sent[i].via = "DoCommit" /\ sent[i].type = "QueryContext"
           /\ (err = "none" /\ Len(sent) > 0)
                => /\ IsReturningResult(result)
                   /\ GetRecords(result).rows = ReturnedRows(ReturnedColumns(returning))

\* C21: a call sends its statement at most once, through Core.DoExec or
\* through DoCommit, and exactly once when it returns without error; nothing
\* is sent when the link cannot be resolved or DoFilter fails.
C21_StatementSentAtMostOnce ==
    Done =>
        /\ Len(sent) <= 1
        /\ \A i \in 1..Len(sent) :
              \/ sent[i].via = "Core.DoExec" /\ sent[i].type = "ExecContext"
              \/ sent[i].via = "DoCommit" /\ sent[i].type = "QueryContext"
        /\ err = "none" => Len(sent) = 1
        /\ err \in {"MasterLinkError", "FilterError"} => sent = <<>>

C21_Witness ==
    /\ Done
    /\ drv = "pgsql"
    /\ Explicit
    /\ fail = "filter"
    /\ err = "FilterError"
    /\ link # "nil"
    /\ sent = <<>>

\* C22: when DoFilter or DoCommit fails, the call returns that error and a nil
\* result: no Result, populated or not, comes back next to an error.
C22_FailureReturnsNilResult ==
    Done =>
        /\ (fail = "filter" /\ link # "nil") => err = "FilterError"
        /\ (fail = "commit" /\ Len(sent) > 0) => err = "CommitError"
        /\ err # "none" => result = NilResult

C22_Witness ==
    /\ Done
    /\ drv = "sqlite_query"
    /\ Explicit
    /\ fail = "commit"
    /\ Len(sent) = 1
    /\ sent[1].type = "QueryContext"
    /\ err = "CommitError"
    /\ result = NilResult

----------------------------------------------------------------------------
(* pgsql Tables and the engine's version *)

IsDigit(ch) == ch \in {"0", "1", "2", "3", "4", "5", "6", "7", "8", "9"}

DigitValue(ch) ==
    CASE ch = "0" -> 0 [] ch = "1" -> 1 [] ch = "2" -> 2 [] ch = "3" -> 3
      [] ch = "4" -> 4 [] ch = "5" -> 5 [] ch = "6" -> 6 [] ch = "7" -> 7
      [] ch = "8" -> 8 [] ch = "9" -> 9 [] OTHER -> 0

RECURSIVE DigitRun(_)
\* how many digits a string starts with: what \d+ takes
DigitRun(s) ==
    IF Len(s) > 0 /\ IsDigit(SubSeq(s, 1, 1)) THEN 1 + DigitRun(SubSeq(s, 2, Len(s))) ELSE 0

\* (\d+\.\d+) at the head of s: the text it captures, "" when it does not match
MajorMinorAt(s) ==
    LET a    == DigitRun(s)
        rest == SubSeq(s, a + 1, Len(s))
        b    == IF HasPrefix(rest, ".") THEN DigitRun(SubSeq(rest, 2, Len(rest))) ELSE 0
    IN  IF a > 0 /\ b > 0 THEN SubSeq(s, 1, a + 1 + b) ELSE ""

VersionPrefix == "PostgreSQL "

RECURSIVE versionRegex(_)
\* versionRegex.FindStringSubmatch(v)[1]: the leftmost match's capture, "" without a match
versionRegex(v) ==
    IF Len(v) < Len(VersionPrefix) THEN ""
    ELSE IF HasPrefix(v, VersionPrefix)
            /\ MajorMinorAt(SubSeq(v, Len(VersionPrefix) + 1, Len(v))) # ""
         THEN MajorMinorAt(SubSeq(v, Len(VersionPrefix) + 1, Len(v)))
         ELSE versionRegex(SubSeq(v, 2, Len(v)))

RECURSIVE Atoi(_, _)
\* gconv.Int of a run of digits; 0 for anything else
Atoi(s, acc) ==
    IF Len(s) = 0 THEN acc
    ELSE IF IsDigit(SubSeq(s, 1, 1))
         THEN Atoi(SubSeq(s, 2, Len(s)), acc * 10 + DigitValue(SubSeq(s, 1, 1)))
         ELSE 0

RECURSIVE SplitDots(_, _)
\* strings.Split(s, ".")
SplitDots(s, cur) ==
    IF Len(s) = 0 THEN <<cur>>
    ELSE IF SubSeq(s, 1, 1) = "." THEN <<cur>> \o SplitDots(SubSeq(s, 2, Len(s)), "")
    ELSE SplitDots(SubSeq(s, 2, Len(s)), cur \o SubSeq(s, 1, 1))

\* gstr.CompareVersion: the parts of both versions compared as integers, the
\* shorter one padded with "0"
CompareVersion(a, b) ==
    LET array1 == SplitDots(a, "")
        array2 == SplitDots(b, "")
        n      == IF Len(array1) > Len(array2) THEN Len(array1) ELSE Len(array2)
        v1(i)  == IF i <= Len(array1) THEN Atoi(array1[i], 0) ELSE 0
        v2(i)  == IF i <= Len(array2) THEN Atoi(array2[i], 0) ELSE 0
        differ == {i \in 1..n : v1(i) # v2(i)}
    IN  IF differ = {} THEN 0
        ELSE LET i == CHOOSE j \in differ : \A k \in differ : j <= k
             IN  IF v1(i) > v2(i) THEN 1 ELSE -1

\* tablesSqlTmp and tablesSqlBySearchPath, formatted and brought to one line
TablesQuery(usedSchema, useRelpartbound) ==
    LET filter == IF useRelpartbound = "" THEN "" ELSE useRelpartbound \o " "
    IN  IF usedSchema # ""
        THEN "SELECT c.relname FROM pg_class c JOIN pg_namespace n ON c.relnamespace = n.oid "
             \o "WHERE n.nspname = '" \o usedSchema \o "' AND c.relkind IN ('r', 'p') "
             \o filter \o "ORDER BY c.relname"
        ELSE "SELECT DISTINCT ON (c.relname) c.relname FROM pg_class c "
             \o "JOIN pg_namespace n ON c.relnamespace = n.oid "
             \o "WHERE n.nspname = ANY(current_schemas(false)) AND c.relkind IN ('r', 'p') "
             \o filter
             \o "ORDER BY c.relname, array_position(current_schemas(false), n.nspname)"

\* gutil.GetOrDefaultStr(def, param...)
GetOrDefaultStr(def, param) ==
    IF Len(param) > 0 /\ param[1] # "" THEN param[1] ELSE def

\* the Namespace of the configuration, and the schema arguments of Tables
Namespaces == {"", "app"}

SchemaArgs == {<<>>, <<"public">>}

\* no DoExec call is modelled
NoExecCall ==
    /\ pc = "idle"
    /\ helper = "Exec"
    /\ drv = "pgsql"
    /\ op = "insert"
    /\ insertOption = "InsertOptionDefault"
    /\ returning = <<>>
    /\ linkArg = "nil"
    /\ tableName = "t_int"
    /\ nRows = 1
    /\ fail = "none"
    /\ ctx = EmptyCtx("nil", NoHint)
    /\ sql = ""
    /\ link = "nil"
    /\ sent = <<>>
    /\ result = NilResult
    /\ err = "none"
    /\ scanErr = "none"
    /\ dest = <<>>

TablesInit ==
    /\ NoExecCall
    /\ NoConcurrentCalls
    /\ NoScanList
    /\ pgVersion \in Banners
    /\ NoTablesCall
    /\ commitOut = <<>>

\* Tables up to SlaveLink: the schema it will use, and the link or its error
TablesSlaveLink ==
    /\ tpc = "idle"
    /\ tCalls < MaxTablesCalls
    /\ \E ns \in Namespaces, schema \in SchemaArgs, linked \in BOOLEAN :
          /\ tSchema' = GetOrDefaultStr(ns, schema)
          /\ tpc' = IF linked THEN "linked" ELSE "idle"
          /\ tErr' = IF linked THEN "none" ELSE "SlaveLinkError"
    /\ tCalls' = tCalls + 1
    /\ tQuery' = ""
    /\ UNCHANGED <<callVars, concVars, listVars, commitOut, pgVersion, versionSent>>

\* d.version: "SELECT version();" sent through DoSelect, the banner matched
\* against versionRegex; "" when the query fails
version(selected) ==
    IF selected THEN versionRegex(pgVersion) ELSE ""

\* Tables from the version comparison to the query it builds
TablesVersion ==
    /\ tpc = "linked"
    /\ \E selected \in BOOLEAN :
          LET useRelpartbound == IF CompareVersion(version(selected), "10") >= 0
                                 THEN "AND c.relpartbound IS NULL" ELSE ""
          IN  tQuery' = TablesQuery(tSchema, useRelpartbound)
    /\ versionSent' = versionSent + 1
    /\ tpc' = "versioned"
    /\ UNCHANGED <<callVars, concVars, listVars, commitOut, pgVersion, tSchema, tErr, tCalls>>

\* Tables' own query, through DoSelect
TablesSelect ==
    /\ tpc = "versioned"
    /\ \E selected \in BOOLEAN : tErr' = IF selected THEN "none" ELSE "SelectError"
    /\ tpc' = "idle"
    /\ UNCHANGED <<callVars, concVars, listVars, commitOut, pgVersion, tSchema, tQuery,
                   versionSent, tCalls>>

TablesNext ==
    \/ TablesSlaveLink
    \/ TablesVersion
    \/ TablesSelect

TablesSpec == TablesInit /\ [][TablesNext]_vars

\* C23: on one driver the version query "SELECT version();" is sent at most
\* once; a later Tables call reuses the version the first one found.
C23_VersionQueriedAtMostOnce == versionSent <= 1

\* the engine behind the connection knows the OLD. and NEW. row prefixes of a
\* RETURNING clause: PostgreSQL 18 and later
SupportsOldNew == CompareVersion(versionRegex(pgVersion), "18") >= 0

RECURSIVE ClauseItems(_, _)
\* the items of "a, b, c"
ClauseItems(s, cur) ==
    IF Len(s) = 0 THEN <<cur>>
    ELSE IF HasPrefix(s, ", ") THEN <<cur>> \o ClauseItems(SubSeq(s, 3, Len(s)), "")
    ELSE ClauseItems(SubSeq(s, 2, Len(s)), cur \o SubSeq(s, 1, 1))

\* the items behind "RETURNING " of the clause built
BuiltItems ==
    IF HasPrefix(sql, "RETURNING ") THEN ClauseItems(SubSeq(sql, 11, Len(sql)), "") ELSE <<>>

\* C24: the pgsql builder emits a field qualified with OLD. or NEW. only for an
\* engine version that supports the prefixes; on an older engine a field
\* written with such a prefix does not come out as a qualified field.
C24_RowPrefixOnlyWhenSupported ==
    (Built /\ drv = "pgsql" /\ ~SupportsOldNew) =>
        \A i \in 1..Len(returning) :
            RowPrefix(TrimSpace(returning[i])) # "" =>
                \/ i > Len(BuiltItems)
                \/ BuiltItems[i] # PrefixedThenWrapped(TrimSpace(returning[i]))

\* pgsql DoExec was reached: every call but an insert with the Replace option
PgsqlDoExecReached ==
    drv = "pgsql" /\ ~(op = "insert" /\ insertOption = "InsertOptionReplace")

\* C25: without a returning list in the context and without a primary-key hint
\* that applies, pgsql DoExec hands the statement unchanged to Core.DoExec and
\* returns what Core.DoExec returns: the native result with the affected count
\* and last insert id of the plain exec and no records, or nil with its error.
C25_NoClauseMeansCoreDoExec ==
    (Done /\ PgsqlDoExecReached /\ ~Explicit /\ ~PgsqlIsAutoReturning(ctx, ModelSql))
        => /\ PlainExec
           /\ sql = CoreDoExec(ctx, linkArg, ModelSql).sql
           /\ sent = CoreDoExec(ctx, linkArg, ModelSql).sent
           /\ result = CoreDoExec(ctx, linkArg, ModelSql).result
           /\ err = CoreDoExec(ctx, linkArg, ModelSql).err
           /\ err = "none" =>
                 /\ result = NativeResult
                 /\ result.type = "sql.Result"
                 /\ result.records = <<>>
                 /\ Len(sent) = 1

C25_Witness ==
    /\ Done /\ drv = "pgsql" /\ op = "update" /\ ~Explicit
    /\ err = "none"
    /\ Len(sent) = 1 /\ sent[1].via = "Core.DoExec" /\ sent[1].sql = ModelSql
    /\ result = NativeResult /\ nRows = 2

SqliteDrivers == {"sqlite", "sqlite_query", "sqlite_plain", "sqlite_ctxkey"}

\* the value under the context key the driver's DoExec reads
SqliteDoExecReads ==
    IF drv \in {"sqlite", "sqlite_ctxkey"} THEN ctx.returning_fields ELSE ctx.ReturningFields

\* C26: on the sqlite driver every insert with a non-empty returning list sends
\* a statement that ends in the RETURNING clause of exactly those fields: DoExec
\* reads the list under the context key DoInsert stored it under.
C26_SqliteInsertCarriesClause ==
    (Done /\ drv \in SqliteDrivers /\ op = "insert" /\ Explicit)
        => /\ SqliteDoExecReads = StringsValue(returning)
           /\ \A i \in 1..Len(sent) :
                 sent[i].sql = ModelSql \o " " \o SqliteBuildReturningClause(returning)

\* rows of the table the call inserted, updated or deleted
RowsChanged == IF err = "none" /\ Len(sent) > 0 THEN nRows ELSE 0

\* C27: when an *AndScan helper returns NotSupported the mutation was not
\* applied: no row of the table was inserted, updated or deleted.
C27_NotSupportedMeansNotApplied ==
    (Scanned /\ scanErr = "NotSupported") => RowsChanged = 0

----------------------------------------------------------------------------
(* The Result pgsql DoExec builds on the automatic primary-key path *)

\* records DoCommit can hand back: with the primary-key column, without it (a
\* nil value and a missing key are the same to out.Records[i][primaryKey] != nil)
CommitRecords == {[id |-> 1], [id |-> 2], [name |-> 101], [id |-> 3, name |-> 103]}

RECURSIVE RecordLists(_)
\* the lists of at most n records
RecordLists(n) ==
    IF n = 0 THEN {<<>>}
    ELSE RecordLists(n - 1)
         \cup {Append(l, r) : l \in {x \in RecordLists(n - 1) : Len(x) = n - 1},
                              r \in CommitRecords}

\* DoCommit has returned without error; the context holds the hint of DoInsert
ResultInit ==
    /\ pc = "committed"
    /\ helper = "Exec"
    /\ drv = "pgsql"
    /\ op = "insert"
    /\ insertOption = "InsertOptionDefault"
    /\ returning = <<>>
    /\ linkArg = "nil"
    /\ tableName \in TableNames
    /\ nRows = 1
    /\ fail = "none"
    /\ ctx \in {[EmptyCtx("nil", NoHint) EXCEPT !.pk = f] : f \in PrimaryKeys(tableName)}
    /\ sql = PgsqlSql(ctx, ModelSql)
    /\ link = "master"
    /\ sent = <<>>
    /\ result = NilResult
    /\ err = "none"
    /\ scanErr = "none"
    /\ dest = <<>>
    /\ NoConcurrentCalls
    /\ NoScanList
    /\ pgVersion = "PostgreSQL 18.0"
    /\ NoTablesCall
    /\ commitOut \in RecordLists(MaxRows)

\* the tail of pgsql DoExec: from DoCommit's records to the Result
BuildResult ==
    /\ pc = "committed"
    /\ result' = PgsqlBuildResult(PgsqlIsUserReturning(ctx), ctx.pk,
                                  [err |-> "none", Records |-> commitOut,
                                   RecordsNil |-> (commitOut = <<>>), ResultNil |-> TRUE])
    /\ pc' = "result"
    /\ UNCHANGED <<otherVars, helper, drv, op, insertOption, returning, linkArg, tableName,
                   nRows, fail, ctx, sql, link, sent, err, scanErr, dest>>

ResultNext == BuildResult

ResultSpec == ResultInit /\ [][ResultNext]_vars

\* C28: on the automatic primary-key path a statement that returned k >= 1
\* rows gives a Result with RowsAffected() = k, also when the last row has no
\* primary-key value; the zero Result comes back only for a statement that
\* returned no rows.
C28_AffectedCountsReturnedRows ==
    pc = "result" =>
        /\ Len(commitOut) >= 1 => RowsAffected(result) = Len(commitOut)
        /\ result = PgsqlResult(0, 0, "none", <<>>, TRUE) => commitOut = <<>>

\* C29: two runs of the same insert on the same table metadata pick the same
\* primary-key column as hint, composite primary keys included, so that the
\* statement sent and the last insert id agree between the runs.
C29_SameHintOnEveryRun ==
    \A c \in ConcCalls, d \in ConcCalls :
        (/\ calls[c].pc = "executed" /\ calls[d].pc = "executed"
         /\ calls[c].table = calls[d].table
         /\ calls[c].returning = calls[d].returning)
            => calls[c].seen.hint = calls[d].seen.hint

\* C30: a pgsql insert with the Replace option returns NotSupported before the
\* table's fields are resolved and before any SQL is built or sent, with or
\* without a returning list; ReplaceAndScan on pgsql fails with that error,
\* fills nothing into its destination and changes no row.
C30_PgsqlReplaceNotSupported ==
    ((Done \/ Scanned) /\ drv = "pgsql" /\ op = "insert"
          /\ insertOption = "InsertOptionReplace")
        => /\ err = "NotSupported"
           /\ result = NilResult
           /\ sql = ""
           /\ sent = <<>>
           /\ RowsChanged = 0
           /\ ctx.pk \in CallerHints
           /\ ctx.ReturningFields = NoValue
           /\ Scanned => (scanErr = "NotSupported" /\ dest = <<>>)

C30_Witness ==
    /\ Scanned /\ drv = "pgsql" /\ op = "insert"
    /\ insertOption = "InsertOptionReplace"
    /\ tableName = "t_int" /\ fail = "none"
    /\ returning = ReturningAll
    /\ scanErr = "NotSupported" /\ sent = <<>>
====
